---------------------------- MODULE Spec2Model ----------------------------
(* The three POST handlers of src/main.py (/generate, /fitness-plan,        *)
(* /disease-diet) as a state machine over validated request objects.        *)
(*                                                                          *)
(* Python str values are TLA+ strings; str.lower, the `in` substring test   *)
(* and str.replace are computed character by character. TLA+ strings are    *)
(* ASCII, so every non-ASCII code point of a source literal (emoji,         *)
(* bullets, Devanagari) is written as the single character "~", which       *)
(* occurs nowhere in the source.                                            *)
(* Optional[str] is a sequence: None is << >>, the string s is << s >>.     *)
(* A float rounded to one decimal is kept as its number of tenths.          *)
EXTENDS Integers, Sequences, FiniteSets, TLC

VARIABLES
    request,      \* the validated request object the handler is called with
    response,     \* what the call produced: NoResponse, a 200 body or a 500
    diet_plans,   \* get_disease_diet's diet_plans dict as last left by a call
    default_plan, \* get_disease_diet's default_plan dict as last left by a call
    noted         \* history: None, or << request, response >> of one earlier call

vars == << request, response, diet_plans, default_plan, noted >>

---------------------------------------------------------------------------
(* Python string primitives.                                               *)

UpperToLower ==
    "A" :> "a" @@ "B" :> "b" @@ "C" :> "c" @@ "D" :> "d" @@ "E" :> "e" @@
    "F" :> "f" @@ "G" :> "g" @@ "H" :> "h" @@ "I" :> "i" @@ "J" :> "j" @@
    "K" :> "k" @@ "L" :> "l" @@ "M" :> "m" @@ "N" :> "n" @@ "O" :> "o" @@
    "P" :> "p" @@ "Q" :> "q" @@ "R" :> "r" @@ "S" :> "s" @@ "T" :> "t" @@
    "U" :> "u" @@ "V" :> "v" @@ "W" :> "w" @@ "X" :> "x" @@ "Y" :> "y" @@
    "Z" :> "z"

CharAt(s, i) == SubSeq(s, i, i)

LowerChar(c) == IF c \in DOMAIN UpperToLower THEN UpperToLower[c] ELSE c

RECURSIVE LowerFrom(_, _)
LowerFrom(s, i) ==
    IF i > Len(s) THEN "" ELSE LowerChar(CharAt(s, i)) \o LowerFrom(s, i + 1)

\* str.lower()
Lower(s) == LowerFrom(s, 1)

\* the positions at which sub occurs in s
Occurrences(sub, s) ==
    { i \in 1..(Len(s) - Len(sub) + 1) : SubSeq(s, i, i + Len(sub) - 1) = sub }

\* Python's `sub in s` on str
Contains(sub, s) == Occurrences(sub, s) # {}

Min(S) == CHOOSE m \in S : \A n \in S : m <= n

RECURSIVE ReplaceFrom(_, _, _, _)
ReplaceFrom(s, old, new, pos) ==
    LET later == { i \in Occurrences(old, s) : i >= pos }
    IN  IF later = {}
        THEN SubSeq(s, pos, Len(s))
        ELSE LET at == Min(later)
             IN  SubSeq(s, pos, at - 1) \o new
                     \o ReplaceFrom(s, old, new, at + Len(old))

\* str.replace(old, new) for a non-empty old: left to right, non-overlapping,
\* the inserted text is not scanned again
StrReplace(s, old, new) == ReplaceFrom(s, old, new, 1)

\* Variant of Take: the slice list[:n + 1].
TakeOneMore(list, n) == SubSeq(list, 1, IF Len(list) < n + 1 THEN Len(list) ELSE n + 1)

\* list[:n]
Take(list, n) == SubSeq(list, 1, IF Len(list) < n THEN Len(list) ELSE n)

None == << >>
Some(s) == << s >>

---------------------------------------------------------------------------
(* The literals of the handlers.                                           *)

\* src/main.py:68-132 (every non-ASCII code point is written "~")
content_templates ==
    "english" :> (
        "Artificial Intelligence" :> "# The Future of Artificial Intelligence\n\nArtificial Intelligence (AI) is revolutionizing the way we live and work. From self-driving cars to virtual assistants, AI is becoming an integral part of our daily lives.\n\n## Key Areas of AI Impact:\n1. **Healthcare**: AI-powered diagnosis and drug discovery\n2. **Education**: Personalized learning experiences\n3. **Business**: Automated decision-making and analytics\n4. **Environment**: Climate change prediction and solutions\n\n## Challenges Ahead:\n- Ethical considerations and bias in AI\n- Privacy concerns\n- Job displacement vs. job creation\n\nThe future of AI is both exciting and challenging. As we continue to develop these technologies, it's crucial to ensure they benefit humanity as a whole." @@
        "Climate Change" :> "# Understanding Climate Change: A Call to Action\n\nClimate change is one of the most pressing issues of our time. The Earth's temperature has risen significantly over the past century, leading to severe environmental consequences.\n\n## Key Facts:\n- Global temperatures have risen by 1.1~C since pre-industrial times\n- Sea levels are rising at an accelerating rate\n- Extreme weather events are becoming more frequent\n\n## What Can We Do?\n1. Reduce carbon emissions\n2. Switch to renewable energy\n3. Practice sustainable living\n4. Support environmental policies\n\nEvery action counts in the fight against climate change. Together, we can make a difference." @@
        "default" :> "# {topic}\n\nHere's some interesting information about {topic}:\n\n## Key Points:\n~ {topic} is an important topic in today's world\n~ It affects various aspects of our lives\n~ Understanding it better can help us make informed decisions\n\n## Why It Matters:\nThe significance of {topic} cannot be overstated. It plays a crucial role in shaping our future and the world around us.\n\n## Take Action:\nLearn more about {topic} and share this knowledge with others. Every conversation makes a difference!") @@
    "hindi" :> (
        "default" :> "# {topic} ~~ ~~~~ ~~~ ~~~~~~~\n\n{topic} ~~ ~~ ~~~ ~~ ~~ ~~~~~~~~~~ ~~~~ ~~~ ~~~ ~~~~~ ~~~ ~~~~ ~~~~ ~~~:\n\n## ~~~~~ ~~~~~:\n~ {topic} ~~~~~ ~~~~~ ~~~~ ~~ ~~~~~~~~ ~~~~ ~~\n~ ~~~~ ~~~ ~~ ~~ ~~~~~ ~~~~~~ ~~ ~~~~ ~~~\n~ ~~ ~~~~~~ ~~ ~~~ ~~~~~~~~~~ ~~\n\n## ~~~~~ ~~~~~ ~~:\n{topic} ~~ ~~~~~~ ~~ ~~ ~~~~ ~~~~ ~~~~ ~~ ~~~~~ ~~ ~~~~~ ~~~~~~ ~~ ~~~~ ~~~~ ~~~ ~~~~~~~~~~ ~~~~~~ ~~~~~~ ~~~")
\* src/main.py:180-187 (every non-ASCII code point is written "~")
WeightLossPlan == <<
    "~ Cardio: 30-45 minutes daily (running, cycling, swimming)",
    "~ Calorie deficit diet (reduce 500 calories from maintenance)",
    "~ Strength training: 3 times a week",
    "~ Drink 3-4 liters of water daily",
    "~ Get 7-8 hours of sleep",
    "~ Track your progress weekly" >>
\* src/main.py:189-196 (every non-ASCII code point is written "~")
MuscleGainPlan == <<
    "~~ Strength training: 4-5 times a week",
    "~ High protein diet (1.6-2.2g protein per kg bodyweight)",
    "~ Calorie surplus (300-500 calories above maintenance)",
    "~ Include lean meats, eggs, dairy, and legumes",
    "~ Rest and recovery are crucial",
    "~ Progressive overload in workouts" >>
\* src/main.py:198-205 (every non-ASCII code point is written "~")
MaintenancePlan == <<
    "~ Active lifestyle: 10,000 steps daily",
    "~~ Balanced diet with proper macros",
    "~~ Exercise: 3-4 times a week (mix of cardio and strength)",
    "~ Include flexibility training",
    "~ Stay hydrated",
    "~ Monitor weight weekly" >>
\* src/main.py:207-214 (every non-ASCII code point is written "~")
EndurancePlan == <<
    "~ Long-distance cardio: 3-4 times a week",
    "~~ Interval training: 2 times a week",
    "~ Light strength training for muscle endurance",
    "~ Complex carbs for sustained energy",
    "~ Yoga for flexibility and recovery",
    "~ Gradually increase intensity" >>
\* src/main.py:216-223 (every non-ASCII code point is written "~")
GeneralFitnessPlan == <<
    "~ Start with 20-30 minutes walking daily",
    "~ Basic bodyweight exercises (push-ups, squats, lunges)",
    "~ Eat whole foods, avoid processed items",
    "~ Stretch for 10 minutes daily",
    "~ Drink plenty of water",
    "~ Gradually increase workout intensity" >>
\* src/main.py:244-325 (every non-ASCII code point is written "~")
DietPlansLiteral ==
    "diabetes" :> (
      [ recommended |-> <<
          "Leafy greens (spinach, kale, lettuce)",
          "Whole grains (oats, quinoa, brown rice)",
          "Lean proteins (chicken, fish, tofu)",
          "Berries and citrus fruits",
          "Nuts and seeds (almonds, walnuts, chia seeds)",
          "Legumes (beans, lentils, chickpeas)",
          "Greek yogurt (unsweetened)" >>,
        avoid |-> <<
          "Sugary beverages and sodas",
          "White bread and refined flour",
          "Processed snacks and sweets",
          "Fried foods",
          "High-sugar fruits (bananas, grapes, mangoes)",
          "Sweetened breakfast cereals",
          "Honey, maple syrup, and added sugars" >> ]) @@
    "hypertension" :> (
      [ recommended |-> <<
          "Bananas and avocados (potassium-rich)",
          "Leafy greens (spinach, swiss chard)",
          "Beets and beetroot juice",
          "Oats and whole grains",
          "Fatty fish (salmon, mackerel)",
          "Garlic and herbs (instead of salt)",
          "Low-fat dairy products" >>,
        avoid |-> <<
          "High-sodium foods (canned soups, processed meats)",
          "Pickled and fermented foods",
          "Fast food and restaurant meals",
          "Alcohol",
          "Caffeine in excess",
          "Frozen dinners",
          "Salty snacks (chips, pretzels)" >> ]) @@
    "thyroid" :> (
      [ recommended |-> <<
          "Selenium-rich foods (Brazil nuts, tuna)",
          "Zinc-rich foods (oysters, beef, chickpeas)",
          "Antioxidant-rich berries",
          "Bone broth",
          "Seaweed (for hypothyroidism - consult doctor)",
          "Lean proteins",
          "Cruciferous veggies (cooked, not raw)" >>,
        avoid |-> <<
          "Soy-based products (can interfere with medication)",
          "Excessive iodine supplements",
          "Processed foods",
          "Gluten (if sensitive)",
          "Raw cruciferous vegetables in large amounts",
          "Sugar and refined carbs",
          "Alcohol" >> ]) @@
    "heart disease" :> (
      [ recommended |-> <<
          "Fatty fish (salmon, tuna, mackerel)",
          "Oats and barley",
          "Berries and cherries",
          "Nuts (walnuts, almonds)",
          "Olive oil",
          "Avocados",
          "Dark chocolate (70%+ cocoa)" >>,
        avoid |-> <<
          "Trans fats (fried foods, baked goods)",
          "Red meat and processed meats",
          "Full-fat dairy",
          "Excessive sodium",
          "Sugar-sweetened beverages",
          "Refined carbohydrates",
          "Excessive alcohol" >> ])
DietPlanKeys == << "diabetes", "hypertension", "thyroid", "heart disease" >>
\* src/main.py:328-347 (every non-ASCII code point is written "~")
DefaultPlanLiteral ==
    [ recommended |-> <<
        "Fresh fruits and vegetables",
        "Lean proteins (chicken, fish, legumes)",
        "Whole grains",
        "Healthy fats (avocado, nuts, olive oil)",
        "Plenty of water",
        "Herbal teas",
        "Probiotic foods (yogurt, kefir)" >>,
      avoid |-> <<
        "Processed foods",
        "Excessive sugar",
        "Fried and fatty foods",
        "Excessive alcohol",
        "Caffeine late in the day",
        "Artificial additives",
        "Highly salted foods" >> ]

---------------------------------------------------------------------------
(* POST /generate: generate_content.                                       *)

ContentRequest(u, t, l) ==
    [ endpoint |-> "/generate", username |-> u, topic |-> t, language |-> l ]

\* Variant of LangKey: request.language is used without .lower().
LangKeyCaseSensitive(language) ==
    IF language \notin DOMAIN content_templates THEN "english" ELSE language

\* lang_key after the `not in content_templates` test
LangKey(language) ==
    LET lang_key == Lower(language)
    IN  IF lang_key \notin DOMAIN content_templates THEN "english" ELSE lang_key

\* templates.get("default", content_templates["english"]["default"])
DefaultTemplate(templates) ==
    IF "default" \in DOMAIN templates THEN templates["default"]
    ELSE content_templates["english"]["default"]

Content(topic, language) ==
    LET templates == content_templates[LangKey(language)]
    IN  IF topic \in DOMAIN templates
        THEN templates[topic]
        ELSE StrReplace(DefaultTemplate(templates), "{topic}", topic)

generate_content(req) ==
    response' = [ status |-> 200, content |-> Content(req.topic, req.language) ]

---------------------------------------------------------------------------
(* POST /fitness-plan: get_fitness_plan.                                   *)

FitnessRequest(h, w, g) ==
    [ endpoint |-> "/fitness-plan", height |-> h, weight |-> w, goal |-> g ]

\* BMI thresholds 18.5, 25 and 30, in tenths
NormalFrom == 185
OverweightFrom == 250
ObeseFrom == 300

\* Variant of DivisionFaults: every non-positive height is refused.
DivisionFaultsNonPositive(height) == height <= 0

\* height_m * height_m is 0.0 exactly when height is 0 (|height_m| >= 0.01
\* otherwise), and weight / 0.0 raises ZeroDivisionError.
DivisionFaults(height) == height * height = 0

\* round(weight / (height_m * height_m), 1), in tenths. The quotient
\* weight * 100000 / height^2 is rounded to the nearest integer. Where it lies
\* exactly halfway between two tenths, the double the division produced may
\* sit on either side of the tie and round() follows that double (48 kg at
\* 160 cm gives 18.7, 1 kg at 200 cm gives 0.2, 3 kg at 200 cm gives 0.8), so
\* both neighbours are possible outcomes.
RoundedTenths(weight, height) ==
    LET num == weight * 100000
        den == height * height
        q == num \div den
        r == num % den
    IN  IF 2 * r < den THEN { q }
        ELSE IF 2 * r > den THEN { q + 1 }
        ELSE { q, q + 1 }

\* Variant of Category: each boundary value falls in the lower category.
CategoryBoundaryBelow(bmi) ==
    IF bmi <= NormalFrom THEN "Underweight"
    ELSE IF bmi <= OverweightFrom THEN "Normal weight"
    ELSE IF bmi <= ObeseFrom THEN "Overweight"
    ELSE "Obese"

\* the if / elif chain on the rounded bmi
Category(bmi) ==
    IF bmi < NormalFrom THEN "Underweight"
    ELSE IF NormalFrom <= bmi /\ bmi < OverweightFrom THEN "Normal weight"
    ELSE IF OverweightFrom <= bmi /\ bmi < ObeseFrom THEN "Overweight"
    ELSE "Obese"

\* Variant of Plan: request.goal is matched without .lower().
PlanCaseSensitive(goal_field) ==
    IF Contains("lose", goal_field) THEN WeightLossPlan
    ELSE IF Contains("gain", goal_field) \/ Contains("muscle", goal_field)
    THEN MuscleGainPlan
    ELSE IF Contains("maintain", goal_field) THEN MaintenancePlan
    ELSE IF Contains("endurance", goal_field) THEN EndurancePlan
    ELSE GeneralFitnessPlan

\* the if / elif chain on request.goal.lower()
Plan(goal_field) ==
    LET goal == Lower(goal_field)
    IN  IF Contains("lose", goal) THEN WeightLossPlan
        ELSE IF Contains("gain", goal) \/ Contains("muscle", goal) THEN MuscleGainPlan
        ELSE IF Contains("maintain", goal) THEN MaintenancePlan
        ELSE IF Contains("endurance", goal) THEN EndurancePlan
        ELSE GeneralFitnessPlan

\* The handler: the try body returns a FitnessResponse, or the except clause
\* turns the exception into HTTPException(500, detail=str(e)).
get_fitness_plan(req) ==
    IF DivisionFaults(req.height)
    THEN response' = [ status |-> 500, detail |-> "float division by zero" ]
    ELSE \E bmi \in RoundedTenths(req.weight, req.height) :
            response' = [ status   |-> 200,
                          bmi      |-> bmi,
                          category |-> Category(bmi),
                          plan     |-> Plan(req.goal) ]

---------------------------------------------------------------------------
(* POST /disease-diet: get_disease_diet.                                   *)

RecommendedLimit == 8
AvoidLimit == 6

\* DiseaseRequest: preference: Optional[str] = "No Preference". `sent` is the
\* JSON body's preference member: absent, or present with null or a string.
DiseaseRequest(d, sent) ==
    [ endpoint   |-> "/disease-diet",
      disease    |-> d,
      preference |-> IF sent.present THEN sent.value ELSE Some("No Preference") ]

\* Variant of BuildTables: the two dicts are module-level objects that every
\* call shares, so a call starts from what the call before it left.
SharedTables == [ diet_plans |-> diet_plans, default_plan |-> default_plan ]

\* The two dict literals are evaluated inside the handler, at every call.
BuildTables ==
    [ diet_plans |-> DietPlansLiteral, default_plan |-> DefaultPlanLiteral ]

RECURSIVE FirstKeyFrom(_, _)
FirstKeyFrom(disease, i) ==
    IF i > Len(DietPlanKeys) THEN None
    ELSE IF Contains(DietPlanKeys[i], disease) THEN Some(DietPlanKeys[i])
    ELSE FirstKeyFrom(disease, i + 1)

RECURSIVE LastKeyFrom(_, _)
LastKeyFrom(disease, i) ==
    IF i < 1 THEN None
    ELSE IF Contains(DietPlanKeys[i], disease) THEN Some(DietPlanKeys[i])
    ELSE LastKeyFrom(disease, i - 1)

\* Variant of MatchingKey: the loop has no break, the last matching key wins.
MatchingKeyLast(disease) == LastKeyFrom(disease, Len(DietPlanKeys))

\* for key in diet_plans: if key in disease: ... break
MatchingKey(disease) == FirstKeyFrom(disease, 1)

\* Variant of PreferenceBranch: "vegan" is tested before "vegetarian".
PreferenceBranchVeganFirst(preference) ==
    IF preference # None /\ preference[1] # "" /\ preference[1] # "No Preference"
    THEN LET pref == Lower(preference[1])
         IN  IF Contains("vegan", pref) THEN "vegan"
             ELSE IF Contains("vegetarian", pref) THEN "vegetarian"
             ELSE IF Contains("keto", pref) THEN "keto"
             ELSE "none"
    ELSE "none"

\* Which branch of the if / elif chain runs: "vegetarian", "vegan", "keto",
\* or "none" when the outer test or all three inner tests fail.
PreferenceBranch(preference) ==
    IF preference # None /\ preference[1] # "" /\ preference[1] # "No Preference"
    THEN LET pref == Lower(preference[1])
         IN  IF Contains("vegetarian", pref) THEN "vegetarian"
             ELSE IF Contains("vegan", pref) THEN "vegan"
             ELSE IF Contains("keto", pref) THEN "keto"
             ELSE "none"
    ELSE "none"

VegetarianKeeps(f) ==
    ~Contains("chicken", Lower(f)) /\ ~Contains("fish", Lower(f))

\* Variant of VeganKeeps: the "dairy" test is missing.
VeganKeepsDairy(f) ==
    /\ ~Contains("chicken", Lower(f)) /\ ~Contains("fish", Lower(f))
    /\ ~Contains("yogurt", Lower(f))

VeganKeeps(f) ==
    /\ ~Contains("chicken", Lower(f)) /\ ~Contains("fish", Lower(f))
    /\ ~Contains("yogurt", Lower(f)) /\ ~Contains("dairy", Lower(f))

\* Variant of KetoKeeps: the keto branch drops nothing.
KetoKeepsEverything(f) == TRUE

KetoKeeps(f) ==
    ~Contains("grains", Lower(f)) /\ ~Contains("oats", Lower(f))

VegetarianAdded == << "Plant-based proteins (tofu, tempeh, legumes)" >>
VeganAdded == << "Plant-based proteins", "Fortified plant milks" >>
KetoAdded == << "Healthy fats", "Low-carb vegetables" >>

\* selected_plan["recommended"] after the preference block
AdjustRecommended(recommended, preference) ==
    LET branch == PreferenceBranch(preference)
    IN  IF branch = "vegetarian"
        THEN SelectSeq(recommended, VegetarianKeeps) \o VegetarianAdded
        ELSE IF branch = "vegan"
        THEN SelectSeq(recommended, VeganKeeps) \o VeganAdded
        ELSE IF branch = "keto"
        THEN SelectSeq(recommended, KetoKeeps) \o KetoAdded
        ELSE recommended

\* The handler. selected_plan aliases an entry of diet_plans, or default_plan:
\* the assignment to selected_plan["recommended"] rebinds that dict's entry.
get_disease_diet(req) ==
    LET disease == Lower(req.disease)
        tables == BuildTables
        key == MatchingKey(disease)
        selected_plan == IF key = None THEN tables.default_plan
                         ELSE tables.diet_plans[key[1]]
        recommended == AdjustRecommended(selected_plan.recommended, req.preference)
    IN  /\ diet_plans' = IF key = None THEN tables.diet_plans
                         ELSE [tables.diet_plans EXCEPT ![key[1]].recommended = recommended]
        /\ default_plan' = IF key = None
                           THEN [tables.default_plan EXCEPT !.recommended = recommended]
                           ELSE tables.default_plan
        /\ response' = [ status      |-> 200,
                         recommended |-> Take(recommended, RecommendedLimit),
                         avoid       |-> Take(selected_plan.avoid, AvoidLimit) ]


---------------------------------------------------------------------------
(* Inputs.                                                                 *)

MaxHeight == 200
MaxWeight == 100

Usernames == { "", "asha" }

Topics ==
    { "Artificial Intelligence", "Climate Change", "default", "Unknown Topic X",
      "", "artificial intelligence", "{topic}" }

Languages == { "english", "English", "HINDI", "hindi", "french", "" }

ContentRequests ==
    { ContentRequest(u, t, l) : u \in Usernames, t \in Topics, l \in Languages }

Heights == { -170, 0, 1 } \cup 150..MaxHeight

Weights == { -10, 0 } \cup 30..MaxWeight

Goals ==
    { "", "xyz", "I want to LOSE weight", "build Muscle", "Gain weight",
      "Maintain", "ENDURANCE", "lose fat, gain muscle", "maintain endurance" }

FitnessRequests ==
    { FitnessRequest(h, w, g) : h \in Heights, w \in Weights, g \in Goals }

Diseases ==
    { "", "Type 2 Diabetes", "hypertension", "Thyroid", "Heart Disease",
      "unknown condition", "diabetes with hypertension", "thyroid and DIABETES",
      "heart disease, thyroid", "heart", "Hypertensive heart disease" }

PreferenceStrings ==
    { "", "No Preference", "no preference", "Vegetarian", "vegan", "Keto",
      "vegan keto", "Vegetarian or Vegan", "keto vegetarian", "paleo" }

PreferencesSent ==
    { [ present |-> FALSE, value |-> None ], [ present |-> TRUE, value |-> None ] }
        \cup { [ present |-> TRUE, value |-> Some(s) ] : s \in PreferenceStrings }

DiseaseRequests == { DiseaseRequest(d, p) : d \in Diseases, p \in PreferencesSent }

SessionDiseases ==
    { "Type 2 Diabetes", "hypertension", "Thyroid", "Heart Disease", "unknown condition" }

SessionPreferences == { None, Some("Vegetarian"), Some("vegan"), Some("Keto") }

SessionRequests ==
    { DiseaseRequest(d, [ present |-> TRUE, value |-> p ]) :
        d \in SessionDiseases, p \in SessionPreferences }

NoRequest == [ endpoint |-> "" ]
NoResponse == [ status |-> 0 ]

Requests == ContentRequests \cup FitnessRequests \cup DiseaseRequests

---------------------------------------------------------------------------
(* One call of a handler on a request object drawn from the inputs.        *)

Init ==
    /\ request \in Requests
    /\ response = NoResponse
    /\ diet_plans = DietPlansLiteral
    /\ default_plan = DefaultPlanLiteral
    /\ noted = None

Generate ==
    /\ request.endpoint = "/generate"
    /\ response = NoResponse
    /\ generate_content(request)
    /\ UNCHANGED << request, diet_plans, default_plan, noted >>

FitnessPlan ==
    /\ request.endpoint = "/fitness-plan"
    /\ response = NoResponse
    /\ get_fitness_plan(request)
    /\ UNCHANGED << request, diet_plans, default_plan, noted >>

DiseaseDiet ==
    /\ request.endpoint = "/disease-diet"
    /\ response = NoResponse
    /\ get_disease_diet(request)
    /\ UNCHANGED << request, noted >>

Next == Generate \/ FitnessPlan \/ DiseaseDiet

Spec == Init /\ [][Next]_vars

---------------------------------------------------------------------------
(* A session: /disease-diet calls one after another. As a call starts, the *)
(* call before it may be kept in `noted`, so `noted` is always a call that  *)
(* returned before the current one began.                                   *)

SessionInit ==
    /\ request = NoRequest
    /\ response = NoResponse
    /\ diet_plans = DietPlansLiteral
    /\ default_plan = DefaultPlanLiteral
    /\ noted = None

SessionDiseaseDiet ==
    \E req \in SessionRequests :
        /\ request' = req
        /\ get_disease_diet(req)
        /\ noted' \in { noted } \cup
                 ( IF request = NoRequest THEN {} ELSE { << request, response >> } )

SessionNext == SessionDiseaseDiet

SessionSpec == SessionInit /\ [][SessionNext]_vars

---------------------------------------------------------------------------
(* Vocabulary of the properties.                                           *)

Responded(endpoint) == request.endpoint = endpoint /\ response # NoResponse

Range(list) == { list[i] : i \in DOMAIN list }

IsPrefix(p, list) == Len(p) <= Len(list) /\ p = SubSeq(list, 1, Len(p))

LastEntries(list, n) == SubSeq(list, Len(list) - n + 1, Len(list))

Abs(x) == IF x < 0 THEN -x ELSE x

\* f mentions one of the words, case-insensitively
Mentions(f, words) == \E w \in words : Contains(w, Lower(f))

\* list without the entries that mention one of the words
Without(list, words) == SelectSeq(list, LAMBDA f : ~Mentions(f, words))

\* the key the documented order gives the lower-cased disease field
DocumentedKey(disease_field) ==
    LET d == Lower(disease_field)
    IN  IF Contains("diabetes", d) THEN "diabetes"
        ELSE IF Contains("hypertension", d) THEN "hypertension"
        ELSE IF Contains("thyroid", d) THEN "thyroid"
        ELSE IF Contains("heart disease", d) THEN "heart disease"
        ELSE "default"

\* the template of that key, as written in the source
Template(key) ==
    IF key = "default" THEN DefaultPlanLiteral ELSE DietPlansLiteral[key]

\* the plan the call selected, as the call left it
SelectedAsLeft(disease_field) ==
    LET key == DocumentedKey(disease_field)
    IN  IF key = "default" THEN default_plan ELSE diet_plans[key]

\* the lower-cased preference text, "" for None
PreferenceText(preference) ==
    IF preference = None THEN "" ELSE Lower(preference[1])

---------------------------------------------------------------------------
(* C1: in a session of /disease-diet calls, a call's response is the       *)
(* response any earlier call with the same disease and preference got, and *)
(* every call starts from the templates as written: a preference filter    *)
(* applied by an earlier call changes nothing a later call receives.       *)
C1_ResponseDependsOnRequestOnly ==
    /\ BuildTables.diet_plans = DietPlansLiteral
    /\ BuildTables.default_plan = DefaultPlanLiteral
    /\ ( /\ noted # None
         /\ noted[1].disease = request.disease
         /\ noted[1].preference = request.preference )
       => response = noted[2]

\* an earlier call filtered the diabetes plan for a vegetarian, and the same
\* request has been answered again
C1_Witness ==
    /\ noted # None
    /\ noted[1] = request
    /\ request.disease = "Type 2 Diabetes"
    /\ PreferenceBranch(request.preference) = "vegetarian"
    /\ response.recommended[Len(response.recommended)] = VegetarianAdded[1]

(* C2: a /disease-diet response has at most 8 recommended and at most 6    *)
(* avoid entries, and each list is the prefix of the selected plan's list  *)
(* as the preference filter left it: only trailing entries are dropped.    *)
C2_TruncatedPrefix ==
    Responded("/disease-diet") =>
        LET left == SelectedAsLeft(request.disease)
        IN  /\ response.status = 200
            /\ Len(response.recommended) <= 8
            /\ Len(response.avoid) <= 6
            /\ IsPrefix(response.recommended, left.recommended)
            /\ IsPrefix(response.avoid, left.avoid)
            /\ Len(left.recommended) <= 8 => response.recommended = left.recommended
            /\ Len(left.recommended) > 8 => Len(response.recommended) = 8
            /\ Len(left.avoid) > 6 => Len(response.avoid) = 6

\* a filtered list of 9 entries was cut to 8
C2_Witness ==
    /\ Responded("/disease-diet")
    /\ Len(SelectedAsLeft(request.disease).recommended) = 9
    /\ Len(response.recommended) = 8
    /\ Len(response.avoid) = 6

(* C3: for a non-zero height, /fitness-plan returns weight / (height/100)^2 *)
(* rounded to one decimal (a nearest tenth), and the category of that       *)
(* returned value by the intervals below 18.5, [18.5, 25), [25, 30), 30 and *)
(* above; (180, 81) gives 25.0 Overweight, (160, 50) 19.5 Normal weight,    *)
(* (150, 30) 13.3 Underweight, (170, 100) 34.6 Obese.                       *)
C3_BmiAndCategory ==
    (Responded("/fitness-plan") /\ request.height # 0) =>
        LET h == request.height
            w == request.weight
            bmi == response.bmi
            is(b, c) == bmi = b /\ response.category = c
        IN  /\ response.status = 200
            /\ 2 * Abs(bmi * h * h - w * 100000) <= h * h
            /\ bmi < 185 => response.category = "Underweight"
            /\ (185 <= bmi /\ bmi < 250) => response.category = "Normal weight"
            /\ (250 <= bmi /\ bmi < 300) => response.category = "Overweight"
            /\ 300 <= bmi => response.category = "Obese"
            /\ (h = 180 /\ w = 81) => is(250, "Overweight")
            /\ (h = 160 /\ w = 50) => is(195, "Normal weight")
            /\ (h = 150 /\ w = 30) => is(133, "Underweight")
            /\ (h = 170 /\ w = 100) => is(346, "Obese")

\* 81 kg at 180 cm was answered 25.0, on the boundary
C3_Witness ==
    /\ Responded("/fitness-plan")
    /\ request.height = 180 /\ request.weight = 81
    /\ response.bmi = 250
    /\ response.category = "Overweight"

(* C4: the plan is chosen by case-insensitive substring match in the order  *)
(* "lose", then "gain" or "muscle", then "maintain", then "endurance", else *)
(* general fitness (the empty goal included); with several keywords the     *)
(* earliest in that order wins; the returned plan has exactly 6 entries.    *)
C4_GoalPrecedence ==
    (Responded("/fitness-plan") /\ response.status = 200) =>
        LET g == Lower(request.goal)
            plan == response.plan
        IN  /\ Len(plan) = 6
            /\ Contains("lose", g) => plan = WeightLossPlan
            /\ (~Contains("lose", g) /\ (Contains("gain", g) \/ Contains("muscle", g)))
                   => plan = MuscleGainPlan
            /\ ( /\ ~Contains("lose", g) /\ ~Contains("gain", g)
                 /\ ~Contains("muscle", g) /\ Contains("maintain", g) )
                   => plan = MaintenancePlan
            /\ ( /\ ~Contains("lose", g) /\ ~Contains("gain", g)
                 /\ ~Contains("muscle", g) /\ ~Contains("maintain", g)
                 /\ Contains("endurance", g) )
                   => plan = EndurancePlan
            /\ ( /\ ~Contains("lose", g) /\ ~Contains("gain", g)
                 /\ ~Contains("muscle", g) /\ ~Contains("maintain", g)
                 /\ ~Contains("endurance", g) )
                   => plan = GeneralFitnessPlan
            /\ request.goal = "I want to LOSE weight" => plan = WeightLossPlan
            /\ request.goal = "build Muscle" => plan = MuscleGainPlan
            /\ request.goal \in { "xyz", "" } => plan = GeneralFitnessPlan

\* a goal with an upper-case keyword was answered with the weight-loss plan
C4_Witness ==
    /\ Responded("/fitness-plan")
    /\ response.status = 200
    /\ request.goal = "I want to LOSE weight"
    /\ response.plan = WeightLossPlan

(* C5: /disease-diet uses the plan of the first of diabetes, hypertension, *)
(* thyroid, heart disease that the lower-cased disease field contains, the  *)
(* default plan when it contains none; no disease value is an error.        *)
C5_FirstKeyWins ==
    Responded("/disease-diet") =>
        /\ response.status = 200
        /\ response.avoid = SubSeq(Template(DocumentedKey(request.disease)).avoid, 1, 6)
        /\ PreferenceBranch(request.preference) = "none" =>
               response.recommended =
                   Template(DocumentedKey(request.disease)).recommended

\* a field naming thyroid before diabetes got the diabetes plan
C5_Witness ==
    /\ Responded("/disease-diet")
    /\ request.disease = "thyroid and DIABETES"
    /\ response.avoid = SubSeq(DietPlansLiteral["diabetes"].avoid, 1, 6)

(* C6: no returned recommended entry mentions a word the fired branch       *)
(* drops: chicken, fish for vegetarian; chicken, fish, yogurt, dairy for    *)
(* vegan; grains, oats for keto. The appended entries are included.         *)
C6_NoDroppedWordReturned ==
    Responded("/disease-diet") =>
        LET text == PreferenceText(request.preference)
            dropped ==
                IF Contains("vegetarian", text) THEN { "chicken", "fish" }
                ELSE IF Contains("vegan", text)
                THEN { "chicken", "fish", "yogurt", "dairy" }
                ELSE IF Contains("keto", text) THEN { "grains", "oats" }
                ELSE {}
        IN  \A f \in Range(response.recommended) : ~Mentions(f, dropped)

\* a vegan request for the hypertension plan, whose template has a fish and a
\* dairy entry, was answered
C6_Witness ==
    /\ Responded("/disease-diet")
    /\ request.disease = "hypertension"
    /\ request.preference = Some("vegan")
    /\ "Low-fat dairy products" \in Range(DietPlansLiteral["hypertension"].recommended)
    /\ "Fortified plant milks" \in Range(response.recommended)

(* C7: at most one preference branch fires, vegetarian before vegan before  *)
(* keto, each on a case-insensitive substring; for an absent or empty       *)
(* preference, "No Preference", or a text with none of the three words the  *)
(* returned recommended list is the selected plan's recommended list.       *)
C7_OneBranchFires ==
    Responded("/disease-diet") =>
        LET text == PreferenceText(request.preference)
            original == Template(DocumentedKey(request.disease)).recommended
            returned(list) == SubSeq(list, 1, IF Len(list) < 8 THEN Len(list) ELSE 8)
            expected ==
                IF request.preference \in { None, Some(""), Some("No Preference") }
                THEN original
                ELSE IF Contains("vegetarian", text)
                THEN returned(Without(original, { "chicken", "fish" })
                                 \o << "Plant-based proteins (tofu, tempeh, legumes)" >>)
                ELSE IF Contains("vegan", text)
                THEN returned(Without(original, { "chicken", "fish", "yogurt", "dairy" })
                                 \o << "Plant-based proteins", "Fortified plant milks" >>)
                ELSE IF Contains("keto", text)
                THEN returned(Without(original, { "grains", "oats" })
                                 \o << "Healthy fats", "Low-carb vegetables" >>)
                ELSE original
        IN  response.recommended = expected

\* a preference naming vegetarian and vegan got the vegetarian treatment only:
\* the yogurt entry stays
C7_Witness ==
    /\ Responded("/disease-diet")
    /\ request.disease = "Type 2 Diabetes"
    /\ request.preference = Some("Vegetarian or Vegan")
    /\ "Greek yogurt (unsweetened)" \in Range(response.recommended)
    /\ "Fortified plant milks" \notin Range(response.recommended)

RECURSIVE PiecesFrom(_, _, _)
PiecesFrom(s, sep, pos) ==
    LET later == { i \in Occurrences(sep, s) : i >= pos }
    IN  IF later = {} THEN << SubSeq(s, pos, Len(s)) >>
        ELSE << SubSeq(s, pos, Min(later) - 1) >>
                 \o PiecesFrom(s, sep, Min(later) + Len(sep))

\* the pieces of s between the occurrences of sep
Pieces(s, sep) == PiecesFrom(s, sep, 1)

RECURSIVE Joined(_, _)
\* the pieces with x between each two
Joined(pieces, x) ==
    IF Len(pieces) = 1 THEN pieces[1]
    ELSE pieces[1] \o x \o Joined(Tail(pieces), x)

(* C8: /generate matches the language case-insensitively, an unknown        *)
(* language is "english"; a topic that is a key of that language's          *)
(* templates gets the stored text verbatim, any other topic gets that       *)
(* language's default template with the topic in place of every {topic};    *)
(* the username does not matter.                                            *)
C8_ContentByLanguageAndTopic ==
    Responded("/generate") =>
        LET language == IF Lower(request.language) = "hindi" THEN "hindi" ELSE "english"
            stored == content_templates[language]
            pieces == Pieces(stored["default"], "{topic}")
        IN  /\ response.status = 200
            /\ Len(pieces) > 1
            /\ \A i \in DOMAIN pieces : ~Contains("{topic}", pieces[i])
            /\ response.content =
                   IF request.topic \in DOMAIN stored THEN stored[request.topic]
                   ELSE Joined(pieces, request.topic)
            /\ (request.topic = "Artificial Intelligence" /\ language = "hindi") =>
                   /\ response.content # content_templates["english"][request.topic]
                   /\ IsPrefix("# Artificial Intelligence ", response.content)

\* a topic with an English template was asked for in "HINDI" and got the Hindi
\* default template with the topic in it
C8_Witness ==
    /\ Responded("/generate")
    /\ request.language = "HINDI"
    /\ request.topic = "Artificial Intelligence"
    /\ Contains("\n\nArtificial Intelligence ", response.content)
    /\ ~Contains("{topic}", response.content)

(* C9: a call ends as a success with the complete documented body or as an  *)
(* InternalError (500) with only a message; /fitness-plan with height 0     *)
(* ends as the InternalError, with any other height and any weight as a     *)
(* success with bmi, category and plan.                                     *)
C9_SuccessOrInternalError ==
    response # NoResponse =>
        LET body == IF request.endpoint = "/generate" THEN { "content" }
                    ELSE IF request.endpoint = "/fitness-plan"
                    THEN { "bmi", "category", "plan" }
                    ELSE { "recommended", "avoid" }
        IN  /\ \/ response.status = 200 /\ DOMAIN response = { "status" } \cup body
               \/ response.status = 500 /\ DOMAIN response = { "status", "detail" }
            /\ request.endpoint = "/fitness-plan" =>
                   (response.status = 500 <=> request.height = 0)

\* a height of 0 was answered with the 500
C9_Witness ==
    /\ Responded("/fitness-plan")
    /\ request.height = 0
    /\ response = [ status |-> 500, detail |-> "float division by zero" ]

\* the entries the fired branch appends, << >> when none fires
Appended(preference) ==
    LET text == PreferenceText(preference)
    IN  IF Contains("vegetarian", text)
        THEN << "Plant-based proteins (tofu, tempeh, legumes)" >>
        ELSE IF Contains("vegan", text)
        THEN << "Plant-based proteins", "Fortified plant milks" >>
        ELSE IF Contains("keto", text) THEN << "Healthy fats", "Low-carb vegetables" >>
        ELSE << >>

(* C10 as stated: when a preference branch fires, every entry it appends is *)
(* among the returned recommended entries, as the last ones, for every      *)
(* disease: the cut to 8 entries never removes an appended entry.           *)
C10_AppendedAlwaysReturned ==
    Responded("/disease-diet") =>
        LET added == Appended(request.preference)
        IN  /\ Len(added) <= Len(response.recommended)
            /\ LastEntries(response.recommended, Len(added)) = added

(* C10 amended: when a preference branch fires, every entry it appends is   *)
(* returned, as the last entries, unless the thyroid plan is selected and   *)
(* the vegan or keto branch fires. There nothing is filtered out, the 9     *)
(* entries are cut to 8, the first appended entry is the last one returned  *)
(* and the second appended entry is not returned.                           *)
C10_AppendedReturnedUnlessCut ==
    Responded("/disease-diet") =>
        LET added == Appended(request.preference)
            returned == response.recommended
        IN  IF DocumentedKey(request.disease) = "thyroid" /\ Len(added) = 2
            THEN /\ Len(returned) = 8
                 /\ SubSeq(returned, 1, 7) = DietPlansLiteral["thyroid"].recommended
                 /\ returned[8] = added[1]
                 /\ added[2] \notin Range(returned)
            ELSE /\ Len(added) <= Len(returned)
                 /\ LastEntries(returned, Len(added)) = added

\* a keto request for the thyroid plan was answered without "Low-carb vegetables"
C10_Witness ==
    /\ Responded("/disease-diet")
    /\ request.disease = "Thyroid"
    /\ request.preference = Some("Keto")
    /\ response.recommended[8] = "Healthy fats"
    /\ "Low-carb vegetables" \notin Range(response.recommended)

============================================================================
